---- MODULE Spec2Model ----
(***************************************************************************)
(* A model of github.com/df-mc/structure: the .mcstructure document, its   *)
(* palette with dedup, the flat two-layer grid, check, Read/Write, New,    *)
(* UsePalette, Set/At and the quarter-turn rotation.                       *)
(*                                                                         *)
(* The modelled revision is src/structure.go together with the second      *)
(* file held in src/unnamed/part_003 (lines 214-461), the revision that    *)
(* has prepare, ptrFor and the parsed palette.                             *)
(*                                                                         *)
(* A behaviour is one run of a client program: it creates one document     *)
(* (New or Read) and then calls the API on it.  A Go panic or a memory     *)
(* fault ends the run (status = "panic").                                  *)
(***************************************************************************)
EXTENDS Integers, Sequences, FiniteSets, TLC

VARIABLES
    doc,     \* the document the client holds, or NoDoc
    status,  \* "run", or "panic" once a call panicked
    op,      \* the call made last
    ret,     \* what the call made last returned
    file,    \* the tree Write wrote last, or NoFile
    input,   \* the tree Read was handed last, or NoFile
    calls,   \* the number of calls made
    prev,    \* doc as it was before the call made last
    hist     \* the names of the calls made

vars == <<doc, status, op, ret, file, input, calls, prev, hist>>

\* ---------------------------------------------------------------- bounds

\* The number of API calls of one run (the creating call included).
MaxCalls == 4

\* The largest component of an extent drawn for SpecAddr.
MaxDim == 3

\* ------------------------------------------------------------- constants

\* const version = 1
version == 1

\* chunk.CurrentBlockVersion, the version Set and New stamp on an entry (the
\* number is set by the chunk package; only its identity matters here).
CurrentBlockVersion == 18

\* Go's nil interface value (a nil world.Block, world.Liquid or error).
Nil == "nil"

\* A nil pointer or a nil map of structs (s.palette, s.palettePtr, Palettes).
NilRef == [nil |-> TRUE]

\* A nil map[string]blockPositionData.
NilMap == {<<"nil", "nil">>}

\* The outcome of an operation that panicked or faulted.
Fault == [fault |-> TRUE]

\* No document is held by the client (before New/Read, or after a failed Read).
NoDoc == [nodoc |-> TRUE]

NoFile == [nofile |-> TRUE]

\* A key of Palettes that is not in the map.
Absent == [absent |-> TRUE]

PaletteNames == {"default", "alt"}

\* ------------------------------------------------- the block catalog
\* world.Block values of the external catalog (dragonfly's world package).
\* chest0 and chest1 are one block type with two different NBT payloads.

Blocks == {"air", "stone", "logX", "logZ", "boneX", "boneZ", "chest0", "chest1", "water"}

\* A properties map (map[string]interface{}) is a set of <<key, value>> pairs.
Get(properties, k) ==
    IF \E kv \in properties : kv[1] = k
    THEN (CHOOSE kv \in properties : kv[1] = k)[2]
    ELSE Nil

Keys(properties) == {kv[1] : kv \in properties}

\* (world.Block).EncodeBlock
EncodeBlock(b) ==
    CASE b = "air"    -> [name |-> "minecraft:air",   properties |-> {}]
      [] b = "stone"  -> [name |-> "minecraft:stone", properties |-> {}]
      [] b = "logX"   -> [name |-> "minecraft:log",   properties |-> {<<"pillar_axis", "x">>}]
      [] b = "logZ"   -> [name |-> "minecraft:log",   properties |-> {<<"pillar_axis", "z">>}]
      [] b = "boneX"  -> [name |-> "minecraft:bone_block",
                          properties |-> {<<"deprecated", "0">>, <<"pillar_axis", "x">>}]
      [] b = "boneZ"  -> [name |-> "minecraft:bone_block",
                          properties |-> {<<"deprecated", "0">>, <<"pillar_axis", "z">>}]
      [] b = "chest0" -> [name |-> "minecraft:chest", properties |-> {}]
      [] b = "chest1" -> [name |-> "minecraft:chest", properties |-> {}]
      [] b = "water"  -> [name |-> "minecraft:water", properties |-> {<<"liquid_depth", "0">>}]

\* The blocks world.BlockByName can return: one per registered state.
Registered == {"air", "stone", "logX", "logZ", "boneX", "boneZ", "chest0", "water"}

\* world.BlockByName(name, properties): the block, or Nil when ok is false.
BlockByName(name, properties) ==
    IF \E b \in Registered : EncodeBlock(b) = [name |-> name, properties |-> properties]
    THEN CHOOSE b \in Registered : EncodeBlock(b) = [name |-> name, properties |-> properties]
    ELSE Nil

\* b.(world.NBTer)
IsNBTer(b) == b \in {"chest0", "chest1"}

\* (world.NBTer).EncodeNBT
EncodeNBT(b) == IF b = "chest1" THEN "items1" ELSE "items0"

\* (world.NBTer).DecodeNBT
DecodeNBT(b, data) == IF data = "items1" THEN "chest1" ELSE "chest0"

\* b.(world.Liquid)
IsLiquid(b) == b = "water"

\* The exported fields of the block's struct in declaration order, each TRUE
\* when its type has the RotateLeft and RotateRight methods (cube.Axis,
\* cube.Direction) and FALSE when it has not (bool, string, int, WoodType):
\* Air{}, Stone{Smooth}, Log{Wood, Stripped, Axis}, BoneBlock{Axis},
\* Chest{Facing, CustomName}, Water{Still, Depth, Falling}.
ExportedFields(b) ==
    CASE b = "air"                   -> <<>>
      [] b = "stone"                 -> <<FALSE>>
      [] b \in {"logX", "logZ"}      -> <<FALSE, FALSE, TRUE>>
      [] b \in {"boneX", "boneZ"}    -> <<TRUE>>
      [] b \in {"chest0", "chest1"}  -> <<TRUE, FALSE>>
      [] b = "water"                 -> <<FALSE, FALSE, FALSE>>

\* The RotateLeft/RotateRight method of a cube.Axis field: a quarter-turn in
\* either direction swaps the x and the z axis.
Turned(b) ==
    CASE b = "logX"  -> "logZ"
      [] b = "logZ"  -> "logX"
      [] b = "boneX" -> "boneZ"
      [] b = "boneZ" -> "boneX"
      [] OTHER       -> b

\* The field loop of rotate on the block b: [b, panic].  For a field whose
\* type has no method of that name MethodByName returns the zero Value, and
\* IsZero of the zero Value panics: the loop reaches its end only when every
\* exported field has the method, and each is then set to the method's result.
RotateBlock(b, direction) ==
    IF \E i \in 1..Len(ExportedFields(b)) : ~ExportedFields(b)[i]
    THEN [b |-> b, panic |-> TRUE]
    ELSE [b |-> Turned(b), panic |-> FALSE]

\* blockupgrader.Upgrade: entries of the current version are left as they are.
Upgrade(bl) == [Name |-> bl.Name, Properties |-> bl.States]

\* ------------------------------------------------------ int32 arithmetic

Two16 == 256 * 256

\* (u * v) mod 2^16 for 0 <= u, v < 2^16, without leaving 32 bits.
MulMod16(u, v) ==
    (((u % 256) * v) + ((((u \div 256) * v) % 256) * 256)) % Two16

\* a * b in int32 (two's complement, wrapping), for int32 a and b.
Mul32(a, b) ==
    LET al  == a % Two16
        ah  == (a \div Two16) % Two16
        bl  == b % Two16
        bh  == (b \div Two16) % Two16
        p0  == al * (bl % 256)
        p1  == al * (bl \div 256)
        los == (p0 % Two16) + ((p1 % 256) * 256)
        lo  == los % Two16
        hi  == ((p0 \div Two16) + (p1 \div 256) + (los \div Two16)
                + MulMod16(ah, bl) + MulMod16(al, bh)) % Two16
    IN  IF hi >= 32768 THEN ((hi - Two16) * Two16) + lo ELSE (hi * Two16) + lo

\* s.Size[0] * s.Size[1] * s.Size[2], an int32 expression.
Volume32(size) == Mul32(Mul32(size[1], size[2]), size[3])

\* strconv.Itoa for n >= 0.
Digit(d) == CASE d = 0 -> "0" [] d = 1 -> "1" [] d = 2 -> "2" [] d = 3 -> "3"
              [] d = 4 -> "4" [] d = 5 -> "5" [] d = 6 -> "6" [] d = 7 -> "7"
              [] d = 8 -> "8" [] d = 9 -> "9"

RECURSIVE Itoa(_)
Itoa(n) == IF n < 10 THEN Digit(n) ELSE Itoa(n \div 10) \o Digit(n % 10)

\* ------------------------------------------------------------ documents
\* A document is the structure struct: the exported fields FormatVersion,
\* Size, Origin, BlockIndices (Structure.BlockIndices) and Palettes
\* (Structure.Palettes), and the unexported working fields.  Sequences are
\* 1-based: Size[1] is s.Size[0], BlockIndices[1][o + 1] is layer 0 at offset o.
\*
\*   Palettes       NilRef (a nil map) or [PaletteNames -> palette or Absent]
\*   palette        NilRef or the active palette (*s.palette)
\*   parsedPalette  the slice's elements; parsedCap its capacity
\*   blocks/liquids whether s.blocks / s.liquids alias a layer (FALSE: nil)
\*   palettePtr     NilRef, or the array prepare took the address of: its
\*                  elements (arr), its capacity (cap) and whether it still is
\*                  the backing array of parsedPalette (live)
\*   paletteCap     the capacity of s.palette.BlockPalette
\*   storedCap      the capacity of Palettes[name].BlockPalette, per name
\*   aliased        whether s.palette.BlockPalette and
\*                  Palettes[paletteName].BlockPalette have one backing array
\*
\* s.palette points at a copy of the palette struct stored in the map: the
\* copy has the stored palette's BlockPositionData map (one map, two
\* references) and its BlockPalette slice header (one backing array until an
\* append allocates another for s.palette).

ZeroPalette == [BlockPalette |-> <<>>, BlockPositionData |-> NilMap]

ZeroParsedBlock == [b |-> Nil, hasNBT |-> FALSE]

EntryAir == [Name |-> "minecraft:air", States |-> {}, Version |-> CurrentBlockVersion]

\* The number of keys of a Palettes map.
PalettesLen(palettes) ==
    IF palettes = NilRef THEN 0 ELSE Cardinality({n \in PaletteNames : palettes[n] # Absent})

\* s.Structure.Palettes[name], the zero palette for a missing key.
PaletteAt(palettes, name) ==
    IF palettes = NilRef \/ name \notin PaletteNames THEN ZeroPalette
    ELSE IF palettes[name] = Absent THEN ZeroPalette ELSE palettes[name]

\* A map m as a set of <<key, value>> pairs with m[k] = v.
Put(m, k, v) == {kv \in m : kv[1] # k} \cup {<<k, v>>}

\* s.parsedPalette = append(s.parsedPalette, e): in place while the capacity
\* allows (the array palettePtr points into is then written too), else into a
\* newly allocated array of grown capacity, which palettePtr does not follow.
AppendParsed(s, e) ==
    IF Len(s.parsedPalette) < s.parsedCap
    THEN [s EXCEPT !.parsedPalette = Append(@, e),
                   !.palettePtr = IF @ # NilRef /\ @.live
                                  THEN [@ EXCEPT !.arr = Append(@, e)] ELSE @]
    ELSE [s EXCEPT !.parsedPalette = Append(@, e),
                   !.parsedCap = IF @ = 0 THEN 1 ELSE 2 * @,
                   !.palettePtr = IF @ # NilRef THEN [@ EXCEPT !.live = FALSE] ELSE @]

\* parsePaletteEntry parses a single palette entry and adds it to the parsed palette.
parsePaletteEntry(s, bl) ==
    LET upgraded == Upgrade(bl)
        b        == BlockByName(upgraded.Name, upgraded.Properties)
    IN  AppendParsed(s, [b |-> b, hasNBT |-> IsNBTer(b)])

RECURSIVE parseEntries(_, _)
parseEntries(s, i) ==
    IF i > Len(s.palette.BlockPalette) THEN s
    ELSE parseEntries(parsePaletteEntry(s, s.palette.BlockPalette[i]), i + 1)

\* parsePalette: a fresh slice of capacity len(BlockPalette), then every entry.
parsePalette(s) ==
    parseEntries([s EXCEPT !.parsedPalette = <<>>,
                           !.parsedCap = Len(s.palette.BlockPalette),
                           !.palettePtr = IF @ # NilRef THEN [@ EXCEPT !.live = FALSE] ELSE @],
                 1)

\* Whether the Palettes map has the key.
HasPalette(palettes, name) ==
    palettes # NilRef /\ name \in PaletteNames /\ palettes[name] # Absent

\* A UsePalette that does not store the active palette in the map.
UsePaletteNoCommit(s, name) ==
    LET p0 == PaletteAt(s.Palettes, name)
        p  == IF p0.BlockPositionData = NilMap
              THEN [p0 EXCEPT !.BlockPositionData = {}] ELSE p0
        ok == HasPalette(s.Palettes, name)
    IN  parsePalette([s EXCEPT !.palette = p, !.paletteName = name,
                               !.paletteCap = IF ok THEN s.storedCap[name] ELSE 0,
                               !.aliased = ok])

\* (Structure).UsePalette: p is a copy of the stored struct, so s.palette has
\* the stored slice header and, unless it was nil, the stored map.
UsePalette(s, name) ==
    LET active == s.palette # NilRef
        folded == IF active
                  THEN [s.Palettes EXCEPT ![s.paletteName] = s.palette]
                  ELSE s.Palettes
        caps   == IF active
                  THEN [s.storedCap EXCEPT ![s.paletteName] = s.paletteCap]
                  ELSE s.storedCap
        p0     == PaletteAt(folded, name)
        p      == IF p0.BlockPositionData = NilMap
                  THEN [p0 EXCEPT !.BlockPositionData = {}] ELSE p0
        ok     == HasPalette(folded, name)
    IN  parsePalette([s EXCEPT !.Palettes = folded, !.storedCap = caps,
                               !.palette = p, !.paletteName = name,
                               !.paletteCap = IF ok THEN caps[name] ELSE 0,
                               !.aliased = ok])

\* s.palette.BlockPalette = append(s.palette.BlockPalette, bl): in place while
\* the capacity allows, else into a newly allocated array of grown capacity,
\* which the slice stored in Palettes does not follow.
AppendEntry(s, bl) ==
    IF Len(s.palette.BlockPalette) < s.paletteCap
    THEN [s EXCEPT !.palette.BlockPalette = Append(@, bl)]
    ELSE [s EXCEPT !.palette.BlockPalette = Append(@, bl),
                   !.paletteCap = IF @ = 0 THEN 1 ELSE 2 * @,
                   !.aliased = FALSE]

\* prepare: [s |-> the document, panic |-> whether &s.parsedPalette[0] panicked].
prepare(s) ==
    LET s1 == [s EXCEPT !.l = s.Size[3], !.h = s.Size[2]]
        s2 == [s1 EXCEPT !.blocks = TRUE, !.liquids = Len(s.BlockIndices) > 1]
    IN  IF Volume32(s.Size) = 0 THEN [s |-> s1, panic |-> FALSE]
        ELSE IF Len(s.parsedPalette) = 0 THEN [s |-> s2, panic |-> TRUE]
        ELSE [s |-> [s2 EXCEPT !.palettePtr = [arr  |-> s.parsedPalette,
                                               cap  |-> s.parsedCap,
                                               live |-> TRUE]],
              panic |-> FALSE]

\* A layer of n cells all holding v.
Filled(n, v) == [i \in 1..n |-> v]

\* New: [s, panic].
New(dimensions) ==
    LET n  == IF \E i \in 1..3 : dimensions[i] = 0 THEN 0
              ELSE dimensions[1] * dimensions[2] * dimensions[3]
        s0 == [FormatVersion |-> version,
               Size          |-> dimensions,
               Origin        |-> <<0, 0, 0>>,
               BlockIndices  |-> <<Filled(n, 0), Filled(n, -1)>>,
               Palettes      |-> [nm \in PaletteNames |-> Absent],
               palette       |-> NilRef,
               paletteName   |-> "",
               parsedPalette |-> <<>>,
               parsedCap     |-> 0,
               l |-> 0, h |-> 0,
               blocks |-> FALSE, liquids |-> FALSE,
               palettePtr    |-> NilRef,
               paletteCap    |-> 0,
               storedCap     |-> [nm \in PaletteNames |-> 0],
               aliased       |-> FALSE]
        s1 == UsePalette(s0, "default")
        s2 == AppendEntry(s1, EntryAir)
    IN  prepare(s2)

\* check: [s, err]; err is Nil or the kind of the error returned.
check(s) ==
    LET s1 == IF s.Palettes = NilRef
              THEN [s EXCEPT !.Palettes = [nm \in PaletteNames |-> Absent]] ELSE s
        size == Volume32(s.Size)
        lens == {Len(s1.Palettes[nm].BlockPalette) :
                    nm \in {x \in PaletteNames : s1.Palettes[x] # Absent}}
    IN  IF s.FormatVersion # version THEN [s |-> s, err |-> "UnsupportedVersion"]
        ELSE IF Len(s.Size) # 3 THEN [s |-> s, err |-> "BadExtent"]
        ELSE IF Len(s.Origin) # 3 THEN [s |-> s, err |-> "BadOrigin"]
        ELSE IF Len(s.BlockIndices) = 0 THEN [s |-> s1, err |-> "NoLayers"]
        ELSE IF PalettesLen(s1.Palettes) = 0 THEN [s |-> s1, err |-> "NoPalettes"]
        ELSE IF \E i \in 1..Len(s.BlockIndices) : Len(s.BlockIndices[i]) # size
             THEN [s |-> s1, err |-> "LayerSizeMismatch"]
        ELSE IF Cardinality(lens) > 1 THEN [s |-> s1, err |-> "PaletteSizeMismatch"]
        ELSE [s |-> s1, err |-> Nil]

\* The NBT decoder filling a structure from the tree f: a list is decoded
\* into a slice of its length and capacity, a compound into a map that is not
\* nil.
Decode(f) ==
    [FormatVersion |-> f.format_version,
     Size          |-> f.size,
     Origin        |-> f.structure_world_origin,
     BlockIndices  |-> f.block_indices,
     Palettes      |-> f.palette,
     palette       |-> NilRef,
     paletteName   |-> "",
     parsedPalette |-> <<>>,
     parsedCap     |-> 0,
     l |-> 0, h |-> 0,
     blocks |-> FALSE, liquids |-> FALSE,
     palettePtr    |-> NilRef,
     paletteCap    |-> 0,
     storedCap     |-> [nm \in PaletteNames |->
                           IF HasPalette(f.palette, nm)
                           THEN Len(f.palette[nm].BlockPalette) ELSE 0],
     aliased       |-> FALSE]

\* The NBT encoder: the exported fields only; a nil map is written as an
\* empty compound.
Encode(s) ==
    [format_version         |-> s.FormatVersion,
     size                   |-> s.Size,
     structure_world_origin |-> s.Origin,
     block_indices          |-> s.BlockIndices,
     palette                |->
        [nm \in PaletteNames |->
            IF s.Palettes[nm] = Absent THEN Absent
            ELSE [s.Palettes[nm] EXCEPT !.BlockPositionData = IF @ = NilMap THEN {} ELSE @]]]

\* Read: [s, err, panic]; s is NoDoc (the zero Structure) when err is not Nil.
Read(f) ==
    LET c == check(Decode(f))
        p == prepare(UsePalette(c.s, "default"))
    IN  IF c.err # Nil THEN [s |-> NoDoc, err |-> c.err, panic |-> FALSE]
        ELSE [s |-> p.s, err |-> Nil, panic |-> p.panic]

\* Write: the document with the active palette folded into Palettes, and the
\* tree written.
Write(s) ==
    LET s1 == [s EXCEPT !.Palettes[s.paletteName] = s.palette,
                        !.storedCap[s.paletteName] = s.paletteCap,
                        !.aliased = TRUE]
    IN  [s |-> s1, file |-> Encode(s1)]

\* ------------------------------------------------------------ Set and At

\* The match test of lookup's loop body: every key of the entry's States has
\* an equal value in properties (a missing key reads as nil).
Matches(entry, name, properties) ==
    /\ entry.Name = name
    /\ \A kv \in entry.States : Get(properties, kv[1]) = kv[2]

\* A lookup that finds no entry: a palette without dedup.
lookupAlwaysMiss(s, name, properties) == -1

\* lookup: the 0-based index of the first matching entry, or -1.
lookup(s, name, properties) ==
    LET hits == {i \in 1..Len(s.palette.BlockPalette) :
                    Matches(s.palette.BlockPalette[i], name, properties)}
    IN  IF hits = {} THEN -1
        ELSE (CHOOSE i \in hits : \A j \in hits : i <= j) - 1

\* ptrFor: [s, ptr, panic]; b.EncodeBlock() on a nil interface panics.
ptrFor(s, b) ==
    IF b = Nil THEN [s |-> s, ptr |-> -1, panic |-> TRUE]
    ELSE LET enc == EncodeBlock(b)
             ptr == lookup(s, enc.name, enc.properties)
             bl  == [Name |-> enc.name, States |-> enc.properties,
                     Version |-> CurrentBlockVersion]
         IN  IF ptr = -1
             THEN [s     |-> parsePaletteEntry(AppendEntry(s, bl), bl),
                   ptr   |-> Len(s.palette.BlockPalette),
                   panic |-> FALSE]
             ELSE [s |-> s, ptr |-> ptr, panic |-> FALSE]

\* An offset whose y stride is the height and not the length.
offsetHeightStride(s, x, y, z) == (x * s.l * s.h) + (y * s.h) + z

\* offset := (x * s.l * s.h) + (y * s.l) + z
offset(s, x, y, z) == (x * s.l * s.h) + (y * s.l) + z

\* Whether s.blocks[o] (or s.liquids[o]) is an element of the slice.
InSlice(s, layer, set, o) == set /\ 0 <= o /\ o < Len(s.BlockIndices[layer])

\* s.palette.BlockPositionData[k] = v.  The map stored under the active name,
\* when there is one, is the map s.palette has: the write is seen there too.
PutData(s, k, v) ==
    LET stored == HasPalette(s.Palettes, s.paletteName)
                  /\ s.Palettes[s.paletteName].BlockPositionData # NilMap
    IN  [s EXCEPT !.palette.BlockPositionData = Put(@, k, v),
                  !.Palettes = IF stored
                               THEN [@ EXCEPT ![s.paletteName].BlockPositionData = Put(@, k, v)]
                               ELSE @]

\* Set: [s, panic].  The statements run in the order of the code; a panic
\* leaves the document as the statements before it made it.
Set(s, x, y, z, b, liq) ==
    LET o  == offset(s, x, y, z)
        r1 == ptrFor(s, b)
        s1 == [r1.s EXCEPT !.BlockIndices[1][o + 1] = r1.ptr]
        s2 == IF IsNBTer(b) THEN PutData(s1, Itoa(o), EncodeNBT(b)) ELSE s1
        r2 == ptrFor(s2, liq)
    IN  IF r1.panic THEN [s |-> s, panic |-> TRUE]
        ELSE IF ~InSlice(s, 1, s.blocks, o) THEN [s |-> r1.s, panic |-> TRUE]
        ELSE IF liq = Nil
             THEN IF ~InSlice(s, 2, s.liquids, o) THEN [s |-> s2, panic |-> TRUE]
                  ELSE [s |-> [s2 EXCEPT !.BlockIndices[2][o + 1] = -1], panic |-> FALSE]
             ELSE IF ~InSlice(s, 2, s.liquids, o) THEN [s |-> r2.s, panic |-> TRUE]
                  ELSE [s |-> [r2.s EXCEPT !.BlockIndices[2][o + 1] = r2.ptr],
                        panic |-> FALSE]

\* What a read of sizeOfBlock bytes outside the array can give: any parsed
\* block, or a fault.
Garbage == {[b |-> b, hasNBT |-> IsNBTer(b)] : b \in Blocks \cup {Nil}}

\* *(*parsedBlock)(unsafe.Pointer(uintptr(s.palettePtr) + uintptr(index)*sizeOfBlock)):
\* the set of values the read can give; {} stands for a fault only.  Inside
\* the array it is the element (the zero value beyond the slice's length);
\* outside the array the read is not defined.
ReadParsed(s, index) ==
    IF s.palettePtr = NilRef THEN {}
    ELSE IF 0 <= index /\ index < Len(s.palettePtr.arr) THEN {s.palettePtr.arr[index + 1]}
    ELSE IF 0 <= index /\ index < s.palettePtr.cap THEN {ZeroParsedBlock}
    ELSE Garbage

\* Whether the read of ReadParsed can fault.
ReadFaults(s, index) ==
    \/ s.palettePtr = NilRef
    \/ index < 0
    \/ index >= s.palettePtr.cap

\* A read through blocksPtr or liquidsPtr outside the layer is not defined
\* either: At can then return anything, or fault.
Wild == {Fault} \cup {[b |-> g.b, l |-> l] : g \in Garbage, l \in {Nil, "water"}}

\* Whether the map has the key.
HasKey(m, k) == \E kv \in m : kv[1] = k

\* At: the set of outcomes, each Fault or the pair returned [b, l].
AtOutcomes(s, x, y, z) ==
    LET o     == offset(s, x, y, z)
        index == s.BlockIndices[1][o + 1]
        data  == s.palette.BlockPositionData
        Blk(entry) == IF entry.hasNBT /\ HasKey(data, Itoa(o))
                      THEN DecodeNBT(entry.b, Get(data, Itoa(o)))
                      ELSE entry.b
        li    == s.BlockIndices[2][o + 1]
        Liq(b) == IF ~s.liquids THEN {[b |-> b, l |-> Nil]}
                  ELSE IF li = -1 THEN {[b |-> b, l |-> Nil]}
                  ELSE {IF IsLiquid(en.b) THEN [b |-> b, l |-> en.b] ELSE Fault :
                            en \in ReadParsed(s, li)}
                       \cup (IF ReadFaults(s, li) THEN {Fault} ELSE {})
    IN  IF ~s.blocks THEN {Fault}
        ELSE IF ~InSlice(s, 1, s.blocks, o) THEN Wild
        ELSE IF index = -1 THEN {[b |-> Nil, l |-> Nil]}
        ELSE UNION {Liq(Blk(entry)) : entry \in ReadParsed(s, index)}
             \cup (IF ReadFaults(s, index) THEN {Fault} ELSE {})

\* -------------------------------------------------------------- rotation

\* The body of rotate's second loop for one entry: [entry, panic].  An entry
\* the catalog does not resolve is skipped; for the others the field loop runs
\* and, when it does not panic, the entry is the encoding of the rotated block.
RotateEntry(state, direction) ==
    LET b   == BlockByName(state.Name, state.States)
        r   == RotateBlock(b, direction)
        enc == EncodeBlock(r.b)
    IN  IF b = Nil THEN [entry |-> state, panic |-> FALSE]
        ELSE IF r.panic THEN [entry |-> state, panic |-> TRUE]
        ELSE [entry |-> [Name |-> enc.name, States |-> enc.properties,
                         Version |-> state.Version],
              panic |-> FALSE]

\* s.palette.BlockPalette[i] = e (i from 1): an assignment into the backing
\* array, seen through the slice stored in Palettes while the array is shared.
WriteEntry(s, i, e) ==
    LET nm == s.paletteName
    IN  [s EXCEPT !.palette.BlockPalette[i] = e,
                  !.Palettes = IF s.aliased /\ i <= Len(@[nm].BlockPalette)
                               THEN [@ EXCEPT ![nm].BlockPalette[i] = e]
                               ELSE @]

\* The second loop of rotate from its i-th entry on: [s, panic].  The entries
\* of the source's active palette are replaced in place, one after the other;
\* a panic leaves the entries before it replaced.
RECURSIVE rotateEntries(_, _, _)
rotateEntries(s, direction, i) ==
    IF i > Len(s.palette.BlockPalette) THEN [s |-> s, panic |-> FALSE]
    ELSE LET r == RotateEntry(s.palette.BlockPalette[i], direction)
         IN  IF r.panic THEN [s |-> s, panic |-> TRUE]
             ELSE rotateEntries(WriteEntry(s, i, r.entry), direction, i + 1)

RotatePalette(s, direction) == rotateEntries(s, direction, 1)

\* The first loop of rotate from its i-th iteration on (x outermost, z
\* innermost): the set of documents it can leave in newStructure, Fault among
\* them when an At or a Set of the loop can panic.
RECURSIVE rotateCells(_, _, _, _)
rotateCells(s, newStructure, direction, i) ==
    LET sizeX == s.Size[1]
        sizeY == s.Size[2]
        sizeZ == s.Size[3]
        x     == i \div (sizeY * sizeZ)
        y     == (i \div sizeZ) % sizeY
        z     == i % sizeZ
        newX  == IF direction = 1 THEN (-z) + (sizeZ - 1) ELSE z
        newZ  == IF direction = 1 THEN x ELSE (-x) + (sizeX - 1)
        Step(o) == IF o = Fault THEN {Fault}
                   ELSE LET r == Set(newStructure, newX, y, newZ, o.b, o.l)
                        IN  IF r.panic THEN {Fault}
                            ELSE rotateCells(s, r.s, direction, i + 1)
    IN  IF sizeX = 0 \/ sizeY = 0 \/ sizeZ = 0 THEN {newStructure}
        ELSE IF x >= sizeX THEN {newStructure}
        ELSE UNION {Step(o) : o \in AtOutcomes(s, x, y, z)}

\* An extent too large for its grid to be held here (2^30 cells or more).
TooBig(size) == \E i \in 1..3 : size[i] > 1024

\* rotate: the set of outcomes [src, res, panic]: the source after the call,
\* the document returned, and whether the call panicked.  For an extent that
\* is TooBig and has no zero component New either fails to allocate the two
\* layers or returns; it returns without a panic only when the int32 volume
\* is 0, and then the source's blocksPtr is nil and the loop's first At
\* faults: every outcome is a panic.  A panic of the second loop leaves the
\* source with the entries the loop had replaced.
rotate(s, direction) ==
    LET dims  == <<s.Size[3], s.Size[2], s.Size[1]>>
        panic == [src |-> s, res |-> NoDoc, panic |-> TRUE]
        p     == RotatePalette(s, direction)
    IN  IF TooBig(dims) /\ \A i \in 1..3 : dims[i] # 0 THEN {panic}
        ELSE IF New(dims).panic THEN {panic}
        ELSE {IF d = Fault THEN panic
              ELSE IF p.panic THEN [src |-> p.s, res |-> NoDoc, panic |-> TRUE]
              ELSE [src |-> p.s, res |-> d, panic |-> FALSE] :
                    d \in rotateCells(s, New(dims).s, direction, 0)}

\* ------------------------------------------------------ the files read
\* The trees Read is given besides those Write wrote: valid ones, and one per
\* way check can fail.

Entry(name, states) == [Name |-> name, States |-> states, Version |-> CurrentBlockVersion]

EntryStone == Entry("minecraft:stone", {})
EntryLogZ  == Entry("minecraft:log", {<<"pillar_axis", "z">>})
EntryLog   == Entry("minecraft:log", {})
EntryBoneZ == Entry("minecraft:bone_block", {<<"deprecated", "0">>, <<"pillar_axis", "z">>})
EntryWater == Entry("minecraft:water", {<<"liquid_depth", "0">>})
EntryChest == Entry("minecraft:chest", {})

Pal(entries, data) == [BlockPalette |-> entries, BlockPositionData |-> data]

Tree(v, size, origin, layers, palettes) ==
    [format_version         |-> v,
     size                   |-> size,
     structure_world_origin |-> origin,
     block_indices          |-> layers,
     palette                |-> palettes]

OnlyDefault(p) == [nm \in PaletteNames |-> IF nm = "default" THEN p ELSE Absent]

\* What New would write for a 1x1x2 document.
FilePlain ==
    Tree(version, <<1, 1, 2>>, <<0, 0, 0>>, <<<<0, 0>>, <<-1, -1>>>>,
         OnlyDefault(Pal(<<EntryAir>>, {})))

\* A waterlogged log and a chest with its payload.
FileFull ==
    Tree(version, <<1, 2, 1>>, <<3, 4, 5>>, <<<<1, 2>>, <<3, -1>>>>,
         OnlyDefault(Pal(<<EntryAir, EntryLogZ, EntryChest, EntryWater>>,
                         {<<"1", "items1">>})))

\* Two palettes, and a log entry that carries no properties.
FileOld ==
    Tree(version, <<2, 1, 1>>, <<0, 0, 0>>, <<<<0, 1>>, <<-1, -1>>>>,
         [nm \in PaletteNames |->
            IF nm = "default" THEN Pal(<<EntryAir, EntryLog>>, {})
            ELSE Pal(<<EntryAir, EntryStone>>, {})])

\* One layer only.
FileOneLayer ==
    Tree(version, <<1, 1, 2>>, <<0, 0, 0>>, <<<<0, 1>>>>,
         OnlyDefault(Pal(<<EntryAir, EntryStone>>, {})))

\* No palette named "default".
FileAltOnly ==
    Tree(version, <<1, 1, 1>>, <<0, 0, 0>>, <<<<0>>, <<-1>>>>,
         [nm \in PaletteNames |->
            IF nm = "alt" THEN Pal(<<EntryAir>>, {}) ELSE Absent])

\* An extent of volume 0.
FileEmpty ==
    Tree(version, <<0, 1, 2>>, <<0, 0, 0>>, <<<<>>, <<>>>>,
         OnlyDefault(Pal(<<EntryAir>>, {})))

\* An extent of volume 2^32 with layers of length 0.
FileWrapped ==
    Tree(version, <<Two16, Two16, 1>>, <<0, 0, 0>>, <<<<>>, <<>>>>,
         OnlyDefault(Pal(<<EntryAir>>, {})))

\* Layer 1 points to an entry the catalog does not resolve (cell 0) and to a
\* block that is no liquid (cell 1).
FileMiss ==
    Tree(version, <<1, 1, 2>>, <<0, 0, 0>>, <<<<2, 2>>, <<1, 2>>>>,
         OnlyDefault(Pal(<<EntryAir, EntryLog, EntryStone>>, {})))

\* An extent of volume 0 with an oriented block in the palette.
FileEmptyLog ==
    Tree(version, <<0, 1, 1>>, <<0, 0, 0>>, <<<<>>, <<>>>>,
         OnlyDefault(Pal(<<EntryAir, EntryLogZ>>, {})))

\* An extent of volume 0 with a block in the palette whose only exported
\* field is its axis.
FileEmptyBone ==
    Tree(version, <<0, 1, 1>>, <<0, 0, 0>>, <<<<>>, <<>>>>,
         OnlyDefault(Pal(<<EntryAir, EntryBoneZ>>, {})))

\* The same with a block after it that has a field of type bool.
FileEmptyMixed ==
    Tree(version, <<0, 1, 1>>, <<0, 0, 0>>, <<<<>>, <<>>>>,
         OnlyDefault(Pal(<<EntryAir, EntryBoneZ, EntryStone>>, {})))

\* A cell that points past the end of the palette.
FileDangling ==
    Tree(version, <<1, 1, 1>>, <<0, 0, 0>>, <<<<1>>, <<-1>>>>,
         OnlyDefault(Pal(<<EntryAir>>, {})))

ValidFiles ==
    {FilePlain, FileFull, FileOld, FileOneLayer, FileAltOnly, FileEmpty, FileMiss,
     FileEmptyLog, FileEmptyBone, FileEmptyMixed, FileDangling}

BadFiles ==
    {[FilePlain EXCEPT !.format_version = 2],
     [FilePlain EXCEPT !.size = <<1, 2>>],
     [FilePlain EXCEPT !.structure_world_origin = <<0, 0>>],
     [FilePlain EXCEPT !.block_indices = <<>>],
     [FilePlain EXCEPT !.palette = NilRef],
     [FilePlain EXCEPT !.palette = [nm \in PaletteNames |-> Absent]],
     [FilePlain EXCEPT !.block_indices = <<<<0, 0>>, <<-1>>>>],
     [FilePlain EXCEPT !.palette = [nm \in PaletteNames |->
            IF nm = "default" THEN Pal(<<EntryAir>>, {}) ELSE Pal(<<>>, {})]],
     FileWrapped}

ExtFiles == ValidFiles \cup BadFiles

\* The arguments the client passes.
NewDims    == {<<0, 0, 0>>, <<0, 1, 2>>, <<1, 1, 1>>, <<1, 1, 2>>}
SetBlocks  == {"stone", "logX", "chest1"}
SetLiquids == {Nil, "water"}
CoordRange == 0..(MaxDim - 1)

\* The coordinates inside the extent.
InBounds(s, x, y, z) == x < s.Size[1] /\ y < s.Size[2] /\ z < s.Size[3]

\* --------------------------------------------------------- the client run
\* op is the call made last, ret what it returned.

NoRet == [none |-> TRUE]

Call(name, c, b, liq, arg) == [name |-> name, c |-> c, b |-> b, liq |-> liq, arg |-> arg]

Init ==
    /\ doc = NoDoc
    /\ status = "run"
    /\ op = Call("none", <<>>, Nil, Nil, "")
    /\ ret = NoRet
    /\ file = NoFile
    /\ input = NoFile
    /\ calls = 0
    /\ prev = NoDoc
    /\ hist = {}

CanCall == status = "run" /\ calls < MaxCalls

\* The bookkeeping of a call.
Count(name) ==
    /\ calls' = calls + 1
    /\ prev' = doc
    /\ hist' = hist \cup {name}

HasDoc == doc # NoDoc

DoNew(dimensions) ==
    /\ CanCall /\ ~HasDoc
    /\ LET r == New(dimensions)
       IN  /\ doc' = IF r.panic THEN NoDoc ELSE r.s
           /\ status' = IF r.panic THEN "panic" ELSE "run"
    /\ op' = Call("New", dimensions, Nil, Nil, "")
    /\ ret' = NoRet
    /\ Count("New")
    /\ UNCHANGED <<file, input>>

\* The effect of s, err := Read(f) on the client's variables.
ReadInto(f, name) ==
    /\ LET r == Read(f)
       IN  /\ doc' = IF r.panic THEN NoDoc ELSE r.s
           /\ status' = IF r.panic THEN "panic" ELSE "run"
           /\ ret' = [err |-> r.err]
    /\ op' = Call(name, <<>>, Nil, Nil, "")
    /\ input' = f
    /\ Count(name)
    /\ UNCHANGED file

\* Read of a file from elsewhere.
DoRead(f) ==
    /\ CanCall /\ ~HasDoc
    /\ ReadInto(f, "Read")

\* Read of the file Write wrote.
DoReadBack ==
    /\ CanCall /\ file # NoFile
    /\ ReadInto(file, "ReadBack")

DoUsePalette(name) ==
    /\ CanCall /\ HasDoc
    /\ doc' = UsePalette(doc, name)
    /\ op' = Call("UsePalette", <<>>, Nil, Nil, name)
    /\ ret' = NoRet
    /\ Count("UsePalette")
    /\ UNCHANGED <<status, file, input>>

DoSet(x, y, z, b, liq) ==
    /\ CanCall /\ HasDoc
    /\ InBounds(doc, x, y, z)
    /\ LET r == Set(doc, x, y, z, b, liq)
       IN  /\ doc' = r.s
           /\ status' = IF r.panic THEN "panic" ELSE "run"
    /\ op' = Call("Set", <<x, y, z>>, b, liq, "")
    /\ ret' = NoRet
    /\ Count("Set")
    /\ UNCHANGED <<file, input>>

DoAt(x, y, z) ==
    /\ CanCall /\ HasDoc
    /\ InBounds(doc, x, y, z)
    /\ \E o \in AtOutcomes(doc, x, y, z) :
          /\ ret' = o
          /\ status' = IF o = Fault THEN "panic" ELSE "run"
    /\ op' = Call("At", <<x, y, z>>, Nil, Nil, "")
    /\ Count("At")
    /\ UNCHANGED <<doc, file, input>>

DoWrite ==
    /\ CanCall /\ HasDoc
    /\ LET w == Write(doc)
       IN  /\ doc' = w.s
           /\ file' = w.file
    /\ op' = Call("Write", <<>>, Nil, Nil, "")
    /\ ret' = NoRet
    /\ Count("Write")
    /\ UNCHANGED <<status, input>>

\* RotateLeft is rotate(-1), RotateRight is rotate(1).
DoRotate(direction) ==
    /\ CanCall /\ HasDoc
    /\ \E o \in rotate(doc, direction) :
          /\ doc' = o.src
          /\ ret' = o.res
          /\ status' = IF o.panic THEN "panic" ELSE "run"
    /\ op' = Call(IF direction = 1 THEN "RotateRight" ELSE "RotateLeft", <<>>, Nil, Nil, "")
    /\ Count(IF direction = 1 THEN "RotateRight" ELSE "RotateLeft")
    /\ UNCHANGED <<file, input>>

Next ==
    \/ \E d \in NewDims : DoNew(d)
    \/ \E f \in ExtFiles : DoRead(f)
    \/ DoReadBack
    \/ \E name \in PaletteNames : DoUsePalette(name)
    \/ \E x \in CoordRange, y \in CoordRange, z \in CoordRange,
          b \in SetBlocks, liq \in SetLiquids : DoSet(x, y, z, b, liq)
    \/ \E x \in CoordRange, y \in CoordRange, z \in CoordRange : DoAt(x, y, z)
    \/ DoWrite
    \/ \E direction \in {-1, 1} : DoRotate(direction)

Spec == Init /\ [][Next]_vars

\* ------------------------------------------------------- addressing runs
\* SpecAddr: the runs that read a document of any extent up to MaxDim in
\* each component, Set one cell and then read one cell with At.

\* The tree of a document of the extent that holds air everywhere.
PlainFile(size) ==
    Tree(version, size, <<0, 0, 0>>,
         <<Filled(size[1] * size[2] * size[3], 0), Filled(size[1] * size[2] * size[3], -1)>>,
         OnlyDefault(Pal(<<EntryAir, EntryStone>>, {})))

InitAddr ==
    /\ \E sx \in 1..MaxDim, sy \in 1..MaxDim, sz \in 1..MaxDim :
          doc = Read(PlainFile(<<sx, sy, sz>>)).s
    /\ status = "run"
    /\ op = Call("Read", <<>>, Nil, Nil, "")
    /\ ret = [err |-> Nil]
    /\ file = NoFile
    /\ input = PlainFile(doc.Size)
    /\ calls = 1
    /\ prev = NoDoc
    /\ hist = {"Read"}

AddrSet == \E x \in CoordRange, y \in CoordRange, z \in CoordRange :
              calls = 1 /\ DoSet(x, y, z, "stone", Nil)

AddrAt == \E x \in CoordRange, y \in CoordRange, z \in CoordRange :
              calls = 2 /\ DoAt(x, y, z)

NextAddr == AddrSet \/ AddrAt

SpecAddr == InitAddr /\ [][NextAddr]_vars

\* ------------------------------------------------------------ the claims

Entries(s) == s.palette.BlockPalette

\* The in-bounds coordinates the client draws from.
Coords(s) == {c \in CoordRange \X CoordRange \X CoordRange : InBounds(s, c[1], c[2], c[3])}

\* Whether the palette holds an entry with the name and exactly the properties
\* the block encodes to.
HasEqualEntry(s, b) ==
    \E i \in 1..Len(Entries(s)) :
        /\ Entries(s)[i].Name = EncodeBlock(b).name
        /\ Entries(s)[i].States = EncodeBlock(b).properties

\* The arguments of a Set that have no equal entry in the palette.
FreshArgs(s, b, liq) == {a \in {b, liq} : a # Nil /\ ~HasEqualEntry(s, a)}

\* The last call was a Set that returned.
SetReturned == op.name = "Set" /\ status = "run"

\* The palette map with the active palette folded in, as Write emits it.
Folded(s) == [s.Palettes EXCEPT ![s.paletteName] = s.palette]

Range(seq) == {seq[i] : i \in 1..Len(seq)}

\* Whether the round trip of s gives s back.
RoundTrips(s) ==
    LET r == Read(Write(s).file)
    IN  /\ r.err = Nil
        /\ ~r.panic
        /\ r.s.Size = s.Size
        /\ r.s.Origin = s.Origin
        /\ r.s.BlockIndices = s.BlockIndices
        /\ \A nm \in PaletteNames :
              /\ (Folded(r.s)[nm] = Absent) <=> (Folded(s)[nm] = Absent)
              /\ Folded(s)[nm] # Absent =>
                    IF nm = s.paletteName
                    THEN Folded(r.s)[nm].BlockPalette = Folded(s)[nm].BlockPalette
                    ELSE Range(Folded(r.s)[nm].BlockPalette) = Range(Folded(s)[nm].BlockPalette)

\* C1: every document built by New followed by Set and UsePalette calls
\* survives Read(Write(doc)): Read succeeds and gives the same extent, origin,
\* cells and palette entries.
C1_RoundTrip ==
    (status = "run" /\ HasDoc /\ hist \subseteq {"New", "Set", "UsePalette"})
        => RoundTrips(doc)

\* C2: a Set grows the palette by no more than the number of its arguments
\* (block, liquid) that have no equal entry in the palette, so not at all when
\* each has one; and the same Set called again grows it no further.
C2_DedupNoGrowth ==
    op.name = "Set" =>
        /\ Len(Entries(doc)) - Len(Entries(prev))
              <= Cardinality(FreshArgs(prev, op.b, op.liq))
        /\ \A c \in Coords(doc) :
              Len(Entries(Set(doc, c[1], c[2], c[3], op.b, op.liq).s)) = Len(Entries(doc))

\* A Set of a block and a liquid that both had an equal entry has returned,
\* and a Set that appended an entry has been repeated.
C2_Witness ==
    /\ SetReturned
    /\ op.liq # Nil
    /\ FreshArgs(prev, op.b, op.liq) = {}
    /\ Len(Entries(doc)) = Len(Entries(prev))
    /\ Len(Entries(doc)) > Len(Read(FilePlain).s.palette.BlockPalette)
    /\ doc.Size = FilePlain.size

\* Whether the palette has an entry of the block's name, and none of that name
\* with the block's properties.
SameNameOtherProperties(s, b) ==
    /\ \E i \in 1..Len(Entries(s)) : Entries(s)[i].Name = EncodeBlock(b).name
    /\ ~HasEqualEntry(s, b)

\* C3: a Set (without liquid) of a block whose name is in the palette, with
\* properties that differ from those of every entry of that name, appends
\* exactly one entry and writes its index to the grid.
C3_DedupGrowth ==
    (SetReturned /\ op.liq = Nil /\ SameNameOtherProperties(prev, op.b)) =>
        /\ Len(Entries(doc)) = Len(Entries(prev)) + 1
        /\ doc.BlockIndices[1][offset(doc, op.c[1], op.c[2], op.c[3]) + 1] = Len(Entries(prev))

\* C4: New with a non-zero extent returns a document that holds air and no
\* liquid everywhere: layer 0 is all 0, the index of the one entry
\* minecraft:air, layer 1 is all -1, and "default" is the active palette.
C4_NewUsable ==
    (op.name = "New" /\ op.c[1] * op.c[2] * op.c[3] # 0) =>
        /\ status = "run"
        /\ HasDoc
        /\ doc.paletteName = "default"
        /\ Entries(doc) = <<EntryAir>>
        /\ \A i \in 1..Len(doc.BlockIndices[1]) : doc.BlockIndices[1][i] = 0
        /\ \A i \in 1..Len(doc.BlockIndices[2]) : doc.BlockIndices[2][i] = -1
        /\ \A c \in Coords(doc) :
              AtOutcomes(doc, c[1], c[2], c[3]) = {[b |-> "air", l |-> Nil]}

\* C5: after a Set, At at the coordinate of the Set returns the block and the
\* liquid passed (nil for no liquid), and At at every other coordinate
\* returns what it returned before the Set.
C5_ReadBack ==
    SetReturned =>
        /\ AtOutcomes(doc, op.c[1], op.c[2], op.c[3]) = {[b |-> op.b, l |-> op.liq]}
        /\ \A c \in Coords(doc) \ {op.c} :
              AtOutcomes(doc, c[1], c[2], c[3]) = AtOutcomes(prev, c[1], c[2], c[3])

\* The offset of the claim, from the extent.
ClaimedOffset(s, c) == (c[1] * (s.Size[3] * s.Size[2])) + (c[2] * s.Size[3]) + c[3]

\* All coordinates of the extent.
AllCoords(s) == (0..(s.Size[1] - 1)) \X (0..(s.Size[2] - 1)) \X (0..(s.Size[3] - 1))

\* C6: for an extent with positive components the offset Set and At compute
\* is x*(sz*sy) + y*sz + z, it maps the coordinates of the extent one-to-one
\* onto 0 .. sx*sy*sz - 1, a Set writes the cell at that offset and no other,
\* and At reads the cell at that offset.
C6_AddressingBijection ==
    HasDoc =>
        /\ \A c \in AllCoords(doc) : offset(doc, c[1], c[2], c[3]) = ClaimedOffset(doc, c)
        /\ \A c, d \in AllCoords(doc) :
              offset(doc, c[1], c[2], c[3]) = offset(doc, d[1], d[2], d[3]) => c = d
        /\ {offset(doc, c[1], c[2], c[3]) : c \in AllCoords(doc)}
              = 0..((doc.Size[1] * doc.Size[2] * doc.Size[3]) - 1)
        /\ op.name = "Set" =>
              \A i \in 1..Len(doc.BlockIndices[1]) :
                 doc.BlockIndices[1][i] =
                    IF i = ClaimedOffset(doc, op.c) + 1 THEN 1 ELSE prev.BlockIndices[1][i]
        /\ op.name = "At" =>
              ret.b = IF doc.BlockIndices[1][ClaimedOffset(doc, op.c) + 1] = 1
                      THEN "stone" ELSE "air"

\* At has read the stone that a Set put at (1, 2, 1) of a 2x3x2 document.
C6_Witness ==
    /\ op.name = "At"
    /\ status = "run"
    /\ doc.Size = <<2, 3, 2>>
    /\ op.c = <<1, 2, 1>>
    /\ ret.b = "stone"

\* The last call was a rotation.
Rotated == op.name \in {"RotateLeft", "RotateRight"}

Direction == IF op.name = "RotateRight" THEN 1 ELSE -1

\* C7: RotateLeft and RotateRight return a document of extent (sz, sy, sx)
\* with layers of length sx*sy*sz, and the same rotation of the result gives
\* the extent (sx, sy, sz) back.
C7_RotationSwapsExtents ==
    (Rotated /\ ~TooBig(prev.Size)) =>
        /\ status = "run"
        /\ ret # NoDoc
        /\ ret.Size = <<prev.Size[3], prev.Size[2], prev.Size[1]>>
        /\ \A i \in 1..Len(ret.BlockIndices) :
              Len(ret.BlockIndices[i]) = prev.Size[1] * prev.Size[2] * prev.Size[3]
        /\ \A o \in rotate(ret, Direction) : ~o.panic /\ o.res.Size = prev.Size

\* The names of a pair At returned (orientation aside).
Identity(pair) ==
    [b |-> IF pair.b = Nil THEN Nil ELSE EncodeBlock(pair.b).name,
     l |-> IF pair.l = Nil THEN Nil ELSE EncodeBlock(pair.l).name]

\* Whether every At of r at the point-mirrored coordinate returns what At of s
\* returns at the coordinate.
HalfTurned(s, r) ==
    /\ r.Size = s.Size
    /\ \A c \in Coords(s) :
          \A p \in AtOutcomes(s, c[1], c[2], c[3]),
             q \in AtOutcomes(r, s.Size[1] - 1 - c[1], c[2], s.Size[3] - 1 - c[3]) :
                p # Fault /\ q # Fault /\ Identity(p) = Identity(q)

\* Whether every At of r returns what At of s returns at the same coordinate.
SameContents(s, r) ==
    /\ r.Size = s.Size
    /\ \A c \in Coords(s) :
          \A p \in AtOutcomes(s, c[1], c[2], c[3]), q \in AtOutcomes(r, c[1], c[2], c[3]) :
                p # Fault /\ q # Fault /\ Identity(p) = Identity(q)

\* C8: two RotateRight calls give a document of the extent of doc that holds
\* at (sx-1-x, y, sz-1-z) what doc held at (x, y, z); four give the contents
\* of doc back.
C8_HalfTurnInvolution ==
    (status = "run" /\ HasDoc /\ ~TooBig(doc.Size)) =>
        \A o1 \in rotate(doc, 1) :
            /\ ~o1.panic
            /\ \A o2 \in rotate(o1.res, 1) :
                  /\ ~o2.panic
                  /\ HalfTurned(doc, o2.res)
                  /\ \A o3 \in rotate(o2.res, 1) :
                        /\ ~o3.panic
                        /\ \A o4 \in rotate(o3.res, 1) :
                              ~o4.panic /\ SameContents(doc, o4.res)

\* Whether n is the product sx*sy*sz of the extent (over the integers).
IsVolume(size, n) ==
    IF \E i \in 1..3 : size[i] = 0 THEN n = 0
    ELSE /\ n % size[1] = 0
         /\ (n \div size[1]) % size[2] = 0
         /\ (n \div size[1]) \div size[2] = size[3]

\* Whether the tree is one that validation has to reject.
Invalid(f) ==
    \/ f.format_version # 1
    \/ Len(f.size) # 3
    \/ Len(f.structure_world_origin) # 3
    \/ Len(f.block_indices) = 0
    \/ PalettesLen(f.palette) = 0
    \/ \E i \in 1..Len(f.block_indices) : ~IsVolume(f.size, Len(f.block_indices[i]))
    \/ \E n1, n2 \in PaletteNames :
          /\ f.palette[n1] # Absent
          /\ f.palette[n2] # Absent
          /\ Len(f.palette[n1].BlockPalette) # Len(f.palette[n2].BlockPalette)

\* C9: Read returns an error and no document for a tree with a layer whose
\* length is not sx*sy*sz, with no palette, with no layer, with a format
\* version other than 1, with a size or an origin that has not 3 values, or
\* with palettes of different lengths; and it never returns both an error and
\* a document.
C9_ValidationRejects ==
    op.name \in {"Read", "ReadBack"} =>
        /\ Invalid(input) => (ret.err # Nil /\ doc = NoDoc)
        /\ ret.err # Nil => doc = NoDoc

\* C10: after Set of a block that carries a payload, the payload table of the
\* active palette holds the encoded payload under the decimal offset and At
\* returns the block with the payload; after Set of a block that carries
\* none the table is as before and At returns the block, without a fault.
C10_AuxiliaryPayload ==
    SetReturned =>
        LET o   == offset(doc, op.c[1], op.c[2], op.c[3])
            got == AtOutcomes(doc, op.c[1], op.c[2], op.c[3])
        IN  /\ Fault \notin got
            /\ \A p \in got : p.b = op.b
            /\ IF IsNBTer(op.b)
               THEN /\ HasKey(doc.palette.BlockPositionData, Itoa(o))
                    /\ Get(doc.palette.BlockPositionData, Itoa(o)) = EncodeNBT(op.b)
               ELSE doc.palette.BlockPositionData = prev.palette.BlockPositionData

\* Whether the catalog resolves the palette entry.
Resolves(entry) == BlockByName(Upgrade(entry).Name, Upgrade(entry).Properties) # Nil

\* C11: RotateLeft and RotateRight complete and return a document for every
\* valid source, also one with a layer-0 cell that holds -1 or points to an
\* entry the catalog does not resolve; the entries the catalog does not
\* resolve are left as they are in the palette of the source.
C11_RotationNeverFails ==
    (Rotated /\ ~TooBig(prev.Size)) =>
        /\ status = "run"
        /\ ret # NoDoc
        /\ \A i \in 1..Len(Entries(prev)) :
              ~Resolves(Entries(prev)[i]) => Entries(doc)[i] = Entries(prev)[i]

\* C12: Set and At at in-bounds coordinates of a document that New or a
\* successful Read returned complete without a panic, also on a document read
\* with one layer only.
C12_SetAtNeverFail ==
    (op.name \in {"Set", "At"} /\ hist \subseteq {"New", "Read", "Set", "At"}
        /\ ~TooBig(prev.Size))
        => status = "run"

\* C13: the parsed palette has as many elements as the active palette has
\* entries, in every state the API calls reach.
C13_CacheLength ==
    (status = "run" /\ HasDoc) => Len(doc.parsedPalette) = Len(Entries(doc))

\* The block the entry at the index of the active palette resolves to, with
\* the payload stored for the offset attached.
ResolvedBlock(s, o, index) ==
    LET e == Entries(s)[index + 1]
        b == BlockByName(Upgrade(e).Name, Upgrade(e).Properties)
    IN  IF IsNBTer(b) /\ HasKey(s.palette.BlockPositionData, Itoa(o))
        THEN DecodeNBT(b, Get(s.palette.BlockPositionData, Itoa(o)))
        ELSE b

\* Whether the index points to an entry of the active palette.
InPalette(s, index) == 0 <= index /\ index < Len(Entries(s))

\* C14: once UsePalette was called, an At that returns gives the block that
\* the entry of the now active palette at the cell's index resolves to, and a
\* Set looks up and inserts in the active palette only: the cell points to an
\* entry of it that matches the block, and the other palettes are as before.
C14_LivePalette ==
    "UsePalette" \in hist =>
        /\ op.name = "At" =>
              LET o     == offset(doc, op.c[1], op.c[2], op.c[3])
                  index == doc.BlockIndices[1][o + 1]
              IN  (InPalette(doc, index) /\ ret # Fault) =>
                     ret.b = ResolvedBlock(doc, o, index)
        /\ SetReturned =>
              LET o     == offset(doc, op.c[1], op.c[2], op.c[3])
                  index == doc.BlockIndices[1][o + 1]
              IN  /\ InPalette(doc, index)
                  /\ Matches(Entries(doc)[index + 1], EncodeBlock(op.b).name,
                             EncodeBlock(op.b).properties)
                  /\ doc.paletteName = prev.paletteName
                  /\ \A nm \in PaletteNames \ {doc.paletteName} :
                        doc.Palettes[nm] = prev.Palettes[nm]

\* The numbers of entries of the palettes Write emits for s.
PaletteLengths(s) ==
    {Len(Folded(s)[nm].BlockPalette) : nm \in {x \in PaletteNames : Folded(s)[x] # Absent}}

\* C15: after UsePalette, Set and Write calls on a document from New or Read
\* all palettes of the document (the active one folded in) have the same
\* number of entries, and the tree Write emits passes check.
C15_CrossPaletteConsistency ==
    (status = "run" /\ HasDoc
        /\ hist \subseteq {"New", "Read", "ReadBack", "UsePalette", "Set", "Write"}) =>
        /\ Cardinality(PaletteLengths(doc)) <= 1
        /\ check(Decode(Write(doc).file)).err = Nil

\* What UsePalette(name) makes the active palette of s: the palette the map
\* holds under the name once the active palette is stored in it, or an empty
\* one.
Restored(s, name) ==
    IF Folded(s)[name] = Absent THEN [BlockPalette |-> <<>>, BlockPositionData |-> {}]
    ELSE Folded(s)[name]

\* C16: UsePalette stores the entries and payloads of the active palette in
\* the map under its name and makes active the palette the map holds under
\* the name passed, with the entries and payloads it had when it was switched
\* away from (an empty palette for a name not in the map); no other call
\* changes a palette of the map that is not active; UsePalette changes no
\* cell, nor the extent or the origin.
C16_SwitchCommitsRestores ==
    /\ op.name = "UsePalette" =>
          /\ doc.Palettes[prev.paletteName] = prev.palette
          /\ doc.paletteName = op.arg
          /\ doc.palette = Restored(prev, op.arg)
          /\ \A nm \in PaletteNames \ {prev.paletteName} :
                doc.Palettes[nm] = prev.Palettes[nm]
          /\ doc.BlockIndices = prev.BlockIndices
          /\ doc.Size = prev.Size
          /\ doc.Origin = prev.Origin
    /\ (op.name \in {"Set", "At", "Write", "RotateLeft", "RotateRight"}) =>
          \A nm \in PaletteNames \ {doc.paletteName} :
             doc.Palettes[nm] = prev.Palettes[nm]

\* UsePalette("default") has brought back, after a time with "alt" active, the
\* palette with the entry a Set appended to it.
C16_Witness ==
    /\ op.name = "UsePalette"
    /\ op.arg = "default"
    /\ prev.paletteName = "alt"
    /\ input = FilePlain
    /\ Entries(doc) = <<EntryAir, EntryStone>>
    /\ doc.Palettes["alt"] = [BlockPalette |-> <<>>, BlockPositionData |-> {}]

\* Whether the sequence p is a prefix of the sequence q.
IsPrefix(p, q) == Len(p) <= Len(q) /\ \A i \in 1..Len(p) : q[i] = p[i]

\* The last call was made on the document the client held.
OnDoc == op.name \in {"Set", "At", "UsePalette", "Write", "RotateLeft", "RotateRight"}

\* C17: no Set, UsePalette, Write, RotateLeft or RotateRight removes an entry
\* of a palette or changes its name, properties or version: the entries a
\* palette had before the call are a prefix of those it has after it.
C17_AppendOnly ==
    OnDoc =>
        \A nm \in PaletteNames :
            Folded(prev)[nm] # Absent =>
                /\ Folded(doc)[nm] # Absent
                /\ IsPrefix(Folded(prev)[nm].BlockPalette, Folded(doc)[nm].BlockPalette)

\* The block the catalog gives for the entry at the index, Nil for none.
EntryBlock(s, index) ==
    BlockByName(Upgrade(Entries(s)[index + 1]).Name, Upgrade(Entries(s)[index + 1]).Properties)

\* C18: when the entry a layer-0 cell points to does not resolve, or the
\* entry a layer-1 cell points to does not resolve or resolves to a block
\* that is no liquid, At completes and returns nil in that slot, and in the
\* other slot what the entry of that slot resolves to.
C18_MissIsAbsence ==
    op.name = "At" =>
        LET o     == offset(doc, op.c[1], op.c[2], op.c[3])
            i0    == doc.BlockIndices[1][o + 1]
            hasL  == Len(doc.BlockIndices) > 1
            i1    == IF hasL THEN doc.BlockIndices[2][o + 1] ELSE -1
            miss0 == InPalette(doc, i0) /\ EntryBlock(doc, i0) = Nil
            miss1 == InPalette(doc, i1) /\ ~IsLiquid(EntryBlock(doc, i1))
        IN  (miss0 \/ miss1) =>
               /\ ret # Fault
               /\ miss0 => ret.b = Nil
               /\ miss1 => ret.l = Nil
               /\ (InPalette(doc, i0) /\ ~miss0) => ret.b = ResolvedBlock(doc, o, i0)
               /\ (InPalette(doc, i1) /\ ~miss1) => ret.l = EntryBlock(doc, i1)

\* C19: Read accepts a tree only if the length of every layer is the product
\* sx*sy*sz of its extent over the integers, also when that product does not
\* fit in 32 bits.
C19_VolumeCheck ==
    (op.name \in {"Read", "ReadBack"} /\ ret.err = Nil) =>
        \A i \in 1..Len(input.block_indices) :
            IsVolume(input.size, Len(input.block_indices[i]))

\* C20: every cell of every layer of a document holds -1 or an index of an
\* entry of the active palette, in every state reached from New or a
\* successful Read by in-bounds Set, UsePalette, RotateLeft and RotateRight
\* calls.
C20_PointerRange ==
    (status = "run" /\ HasDoc
        /\ hist \subseteq {"New", "Read", "Set", "UsePalette", "RotateLeft", "RotateRight"}) =>
        \A k \in 1..Len(doc.BlockIndices) :
            \A i \in 1..Len(doc.BlockIndices[k]) :
                doc.BlockIndices[k][i] = -1 \/ InPalette(doc, doc.BlockIndices[k][i])

\* What parsePaletteEntry stores for the entry at the index of the active
\* palette.
ParsedEntry(s, index) ==
    [b |-> EntryBlock(s, index), hasNBT |-> IsNBTer(EntryBlock(s, index))]

\* C21: whenever a palette is active and prepare has captured the base
\* pointer, the read At makes through that pointer gives, at every index of
\* an entry of the active palette, what the catalog resolves the entry to,
\* and cannot fault.
C21_CacheCoherence ==
    (status = "run" /\ HasDoc /\ doc.palettePtr # NilRef) =>
        \A i \in 0..(Len(Entries(doc)) - 1) :
            /\ ~ReadFaults(doc, i)
            /\ ReadParsed(doc, i) = {ParsedEntry(doc, i)}

\* Whether a quarter turn of s in the first direction followed by one of the
\* result in the second always returns, and gives a document with the extent
\* and the contents of s.
TurnsBack(s, first, second) ==
    \A o1 \in rotate(s, first) :
        /\ ~o1.panic
        /\ \A o2 \in rotate(o1.res, second) :
              ~o2.panic /\ SameContents(s, o2.res)

\* C22: New and in-bounds Set calls build a document s for which
\* s.RotateRight().RotateLeft() and s.RotateLeft().RotateRight() each have the
\* extent of s and hold at every coordinate the block and the liquid s held
\* there (orientation aside).
C22_LeftRightInverse ==
    (hist # {} /\ hist \subseteq {"New", "Set"}) =>
        /\ status = "run"
        /\ HasDoc
        /\ TurnsBack(doc, 1, -1)
        /\ TurnsBack(doc, -1, 1)

====
